---- MODULE Spec2Model ----
(***************************************************************************)
(* The asset download core of facefusion (facefusion/download.py):         *)
(* conditional_download, get_download_size, is_download_done,              *)
(* conditional_download_hashes, conditional_download_sources and the two   *)
(* path validators, as one sequential process that makes one public call   *)
(* after the other.  The network and the cancellation signal are the       *)
(* environment: every request picks its answer nondeterministically.       *)
(***************************************************************************)
EXTENDS Integers, Sequences, FiniteSets, TLC

\* ------------------------------------------------------------------ bounds
\* Largest byte count of a file, a Content-Length or a response body.
MaxSize == 1
\* Largest max_retries handed to a direct conditional_download call.
MaxRetries == 2
\* Longest path list handed to a direct validate_hash_paths or
\* validate_source_paths call.
MaxPaths == 2
\* max_retries : int = 3, the value the orchestration calls run with.
DefaultMaxRetries == 3

\* ------------------------------------------------------------ data model
\* A file name is its stem and its extension (os.path.splitext's two parts).
Names == { [stem |-> "w", ext |-> ".bin"], [stem |-> "v", ext |-> ".bin"] }
NoName == [stem |-> "", ext |-> ""]

\* A URL: host, the directory part of its path, and the final path segment.
URLs ==
    { [host |-> "host", dirs |-> "/models", name |-> n] : n \in Names }
NoUrl == [host |-> "", dirs |-> "", name |-> NoName]

\* The download directories and the file paths below them.
Dirs == { "/assets" }
Paths == { [dir |-> d, name |-> n] : d \in Dirs, n \in Names }

\* One entry of a DownloadSet: { 'url': ..., 'path': ... }.
Assets == { [url |-> u, path |-> p] : u \in URLs, p \in Paths }

\* A DownloadSet is an insertion-ordered dict; its keys are the positions.
\* The sets the process is called with: one asset, two assets in either key
\* order, and one asset whose path is not where its url is downloaded to.
W == [stem |-> "w", ext |-> ".bin"]
V == [stem |-> "v", ext |-> ".bin"]
AssetOf(url_name, path_name) ==
    [url |-> [host |-> "host", dirs |-> "/models", name |-> url_name],
     path |-> [dir |-> "/assets", name |-> path_name]]
DownloadSets ==
    { << AssetOf(W, W) >>,
      << AssetOf(W, W), AssetOf(V, V) >>,
      << AssetOf(W, V) >> }

\* The url lists of the direct conditional_download calls: none, one, two
\* different urls, and the same url twice.
UrlOf(url_name) == [host |-> "host", dirs |-> "/models", name |-> url_name]
UrlLists ==
    { << >>, << UrlOf(W) >>, << UrlOf(W), UrlOf(V) >>, << UrlOf(W), UrlOf(W) >> }

\* A file on disk: whether it exists, its byte size, and whether its content
\* matches its hash record.
Absent == [exists |-> FALSE, size |-> 0, ok |-> FALSE]
FileStates ==
    { Absent } \cup { [exists |-> TRUE, size |-> s, ok |-> b] : s \in 0..MaxSize, b \in BOOLEAN }

\* lru_cache: a URL that was never resolved has no entry.
NotCached == -1

\* ------------------------------------------------- external collaborators
\* facefusion.filesystem.is_file
is_file(fs, path) == fs[path].exists

\* facefusion.filesystem.get_file_size: 0 for a path that is no file.
get_file_size(fs, path) == IF is_file(fs, path) THEN fs[path].size ELSE 0

\* facefusion.hash_helper.validate_hash
validate_hash(fs, path) == fs[path].exists /\ fs[path].ok

\* facefusion.filesystem.remove_file: whether a file was removed.
remove_file_result(fs, path) == is_file(fs, path)
remove_file_files(fs, path) ==
    IF is_file(fs, path) THEN [fs EXCEPT ![path] = Absent] ELSE fs

\* ------------------------------------------------------- pure operations
\* os.path.basename(urlparse(url).path): the final segment of the URL path.
BaseName(url) == url.name

\* os.path.join(download_directory_path, download_file_name)
JoinPath(dir, name) == [dir |-> dir, name |-> name]

\* The destination of a URL's download (lines 26-27).
DownloadFilePath(dir, url) == JoinPath(dir, BaseName(url))

\* os.path.splitext(os.path.basename(path))[0]: the name the logs carry.
LogName(path) == path.name.stem

\* Line 31 with <= for <: a file of the remote size is fetched again.
NeedsDownload_OrEqual(initial_size, download_size) == initial_size <= download_size

\* Line 31 with != for <: any difference of the two sizes starts a fetch.
NeedsDownload_Differs(initial_size, download_size) == initial_size # download_size

\* Line 31: the URL is fetched when the local file is the smaller one.
NeedsDownload(initial_size, download_size) == initial_size < download_size

\* Line 32: range(max_retries) holds another attempt after this one.
MoreAttempts(att, retries) == att + 1 < retries

\* Line 54 with max_retries - 2: the call gives up one attempt early.
LastAttempt_OneEarly(att, retries) == att = retries - 2

\* Line 54 with max_retries for max_retries - 1: no attempt is ever the last.
LastAttempt_Never(att, retries) == att = retries

\* Line 54: the attempt that just failed was the last one.
LastAttempt(att, retries) == att = retries - 1

\* The answers of the size query (urlopen + Content-Length header).
SizeResponses ==
    { [status |-> "error", length |-> 0], [status |-> "no_length", length |-> 0] }
    \cup { [status |-> "ok", length |-> n] : n \in 0..MaxSize }

\* Lines 62-67: the header's value, or 0 on OSError, TypeError, ValueError.
ParseSize(resp) == IF resp.status = "ok" THEN resp.length ELSE 0

\* Lines 80 and 105 without the test of skip_download.
DownloadPhase_Always(flag) == TRUE

\* Lines 80 and 105: the download phase runs unless skip_download is set.
DownloadPhase(flag) == ~flag

\* Line 60 with a cache that treats a stored 0 as no entry.
CacheHit_Truthy(c, url) == c[url] > 0

\* Line 60: lru_cache answers from the cache once the URL has an entry.
CacheHit(c, url) == c[url] # NotCached

\* Lines 129-138 with the append to the invalid list outside the `else`.
validate_hash_paths_invalid_All(fs, paths) == paths

\* Lines 129-138: the paths that are files, and those that are not, in order.
validate_hash_paths_valid(fs, paths) ==
    SelectSeq(paths, LAMBDA p : is_file(fs, p))
validate_hash_paths_invalid(fs, paths) ==
    SelectSeq(paths, LAMBDA p : ~is_file(fs, p))

\* Lines 141-150 with the append to the invalid list outside the `else`.
validate_source_paths_invalid_All(fs, paths) == paths

\* Lines 141-150: the paths whose content passes validate_hash, and the rest.
validate_source_paths_valid(fs, paths) ==
    SelectSeq(paths, LAMBDA p : validate_hash(fs, p))
validate_source_paths_invalid(fs, paths) ==
    SelectSeq(paths, LAMBDA p : ~validate_hash(fs, p))

\* Lines 77 and 102: the paths of a DownloadSet, in key order.
PathsOf(set) == [n \in 1..Len(set) |-> set[n].path]

Range(s) == { s[n] : n \in 1..Len(s) }

\* The path lists a direct validator call is handed: any paths, in any order,
\* repeats included.
PathLists == UNION { [1..n -> Paths] : n \in 0..MaxPaths }


\* ----------------------------------------------------------------- state
VARIABLES
    files,          \* the disk: path -> file
    cache,          \* get_download_size's lru_cache: URL -> size, or NotCached
    asked,          \* history: network size queries issued per URL (capped at 2)
    first,          \* history: the result of the first size query per URL
    healed,         \* history: the DownloadSet the previous call repaired, or << >>
    op,             \* the public function being executed, or "idle"
    pc,             \* the position inside it
    directory,      \* download_directory_path
    assets,         \* the DownloadSet of an orchestration call
    skip,           \* state_manager.get_item('skip_download') of the call
    urls,           \* conditional_download's url list
    max_retries,    \* conditional_download's max_retries
    k,              \* the orchestration's position in the DownloadSet
    i,              \* conditional_download's position in urls
    attempt,        \* conditional_download's attempt counter
    invalid_paths,  \* the invalid paths of the validation before the downloads
    ret,            \* the call's outcome: "none", "True", "False", "raised"
    hist,           \* history: per url of the running conditional_download
    invoked,        \* history: the conditional_download invocations of the call
    resolved,       \* history: the last get_download_size return of the call
    start,          \* history: the disk when the call started
    stop_requested, \* the cancellation signal (process_manager)
    checks,         \* history: process_manager.check() consultations of the call
    validations,    \* history: the path lists handed to the validator
    queries,        \* history: network size queries of the call
    get_issued,     \* history: a GET request was issued in the call
    written,        \* history: paths opened for writing in the call
    removed,        \* history: paths handed to remove_file in the call
    log,            \* the validation log lines of the call
    ended,          \* history: process_manager.end() was called
    second,         \* history: the call follows one that repaired the same set
    partition       \* a direct validator call's argument and its returned pair

procVars == << cache, asked, first >>
argVars == << op, directory, assets, skip, urls, max_retries >>
ctlVars == << pc, k, i, attempt, invalid_paths, ret >>
dlVars == << hist, resolved, queries, get_issued, written >>
orchVars == << invoked, checks, validations, removed, log, ended >>
miscVars == << start, stop_requested, second, healed, partition >>
vars == << files, procVars, argVars, ctlVars, dlVars, orchVars, miscVars >>

\* The history of one url of a conditional_download call: the two sizes line
\* 31 compared, the GET requests issued, whether the body of the completed GET
\* passes validate_hash, whether the response of some GET got past
\* raise_for_status, and how far the url got: "untouched", "skipped",
\* "no_attempt" (the retry loop had nothing to run), "fetching", "fetched" or
\* "failed".
Untouched ==
    [initial_size |-> -1, download_size |-> -1, gets |-> 0, body_ok |-> FALSE,
     accepted |-> FALSE, status |-> "untouched"]
NoResolved == [url |-> NoUrl, size |-> 0, network |-> FALSE]
NoPartition == [paths |-> << >>, valid |-> << >>, invalid |-> << >>]

Init ==
    /\ files \in [Paths -> FileStates]
    /\ cache = [u \in URLs |-> NotCached]
    /\ asked = [u \in URLs |-> 0]
    /\ first = [u \in URLs |-> NotCached]
    /\ healed = << >>
    /\ op = "idle"
    /\ pc = "idle"
    /\ directory = ""
    /\ assets = << >>
    /\ skip = FALSE
    /\ urls = << >>
    /\ max_retries = 0
    /\ k = 0
    /\ i = 0
    /\ attempt = 0
    /\ invalid_paths = << >>
    /\ ret = "none"
    /\ hist = << >>
    /\ invoked = << >>
    /\ resolved = NoResolved
    /\ start = files
    /\ stop_requested = FALSE
    /\ checks = 0
    /\ validations = << >>
    /\ queries = 0
    /\ get_issued = FALSE
    /\ written = {}
    /\ removed = << >>
    /\ log = << >>
    /\ ended = FALSE
    /\ second = FALSE
    /\ partition = NoPartition

\* ------------------------------------------------------ get_download_size
\* The network's possible answers to a size query; none is asked on a hit.
SizeAnswers(url) ==
    IF CacheHit(cache, url) THEN { [status |-> "ok", length |-> 0] } ELSE SizeResponses

\* Lines 60-67: the value get_download_size returns.
get_download_size(url, resp) ==
    IF CacheHit(cache, url) THEN cache[url] ELSE ParseSize(resp)

\* Lines 60-67 as a step: the cache gains the entry, the histories record it.
GetDownloadSizeEffect(url, resp) ==
    LET hit == CacheHit(cache, url)
        value == get_download_size(url, resp)
    IN  /\ cache' = IF hit THEN cache ELSE [cache EXCEPT ![url] = value]
        /\ asked' = IF hit THEN asked
                    ELSE [asked EXCEPT ![url] = IF @ < 2 THEN @ + 1 ELSE 2]
        /\ first' = IF hit \/ asked[url] > 0 THEN first ELSE [first EXCEPT ![url] = value]
        /\ queries' = IF hit THEN queries ELSE queries + 1
        /\ resolved' = [url |-> url, size |-> value, network |-> ~hit]

\* ------------------------------------------------------------- the calls
\* What every call resets when it starts.
BeginCall ==
    /\ pc = "idle"
    /\ start' = files
    /\ ret' = "none"
    /\ resolved' = NoResolved
    /\ invoked' = << >>
    /\ checks' = 0
    /\ validations' = << >>
    /\ queries' = 0
    /\ get_issued' = FALSE
    /\ written' = {}
    /\ removed' = << >>
    /\ log' = << >>
    /\ ended' = FALSE
    /\ invalid_paths' = << >>
    /\ healed' = << >>
    /\ UNCHANGED << files, stop_requested, partition >>

\* A direct call of get_download_size(url) (lines 60-67).
CallGetDownloadSize ==
    \E url \in URLs :
        \E resp \in SizeAnswers(url) :
            /\ pc = "idle"
            /\ op' = "size"
            /\ pc' = "done"
            /\ urls' = << url >>
            /\ GetDownloadSizeEffect(url, resp)
            /\ start' = files
            /\ second' = FALSE
            /\ UNCHANGED << files, directory, assets, skip, max_retries, k, i, attempt,
                            invalid_paths, ret, hist, get_issued, written, orchVars,
                            stop_requested, partition >>
            /\ healed' = << >>

\* A direct call of is_download_done(url, file_path) (lines 70-73).
CallIsDownloadDone ==
    \E url \in URLs, path \in Paths :
        /\ pc = "idle"
        /\ op' = "is_done"
        /\ pc' = "done"
        /\ urls' = << url >>
        /\ start' = files
        /\ second' = FALSE
        /\ IF is_file(files, path)
           THEN \E resp \in SizeAnswers(url) :
                    /\ GetDownloadSizeEffect(url, resp)
                    /\ ret' = IF get_download_size(url, resp) = get_file_size(files, path)
                              THEN "True" ELSE "False"
           ELSE /\ ret' = "False"
                /\ UNCHANGED << procVars, queries, resolved >>
        /\ UNCHANGED << files, directory, assets, skip, max_retries, k, i, attempt,
                        invalid_paths, hist, get_issued, written, orchVars,
                        stop_requested, partition >>
        /\ healed' = << >>

\* A direct call of a validator: the pair it returns is kept in `partition`.
CallValidator(name, paths, valid, invalid) ==
    /\ pc = "idle"
    /\ op' = name
    /\ pc' = "done"
    /\ start' = files
    /\ second' = FALSE
    /\ partition' = [paths |-> paths, valid |-> valid, invalid |-> invalid]
    /\ UNCHANGED << files, procVars, directory, assets, skip, urls, max_retries, k, i,
                    attempt, invalid_paths, ret, dlVars, orchVars, stop_requested >>
    /\ healed' = << >>

\* A direct call of validate_hash_paths(hash_paths) (lines 129-138).
CallValidateHashPaths ==
    \E paths \in PathLists :
        CallValidator("validate_hash_paths", paths,
                      validate_hash_paths_valid(files, paths),
                      validate_hash_paths_invalid(files, paths))

\* A direct call of validate_source_paths(source_paths) (lines 141-150).
CallValidateSourcePaths ==
    \E paths \in PathLists :
        CallValidator("validate_source_paths", paths,
                      validate_source_paths_valid(files, paths),
                      validate_source_paths_invalid(files, paths))

\* A direct call of conditional_download(directory, urls, max_retries).
CallConditionalDownload ==
    \E dir \in Dirs, list \in UrlLists, retries \in 0..MaxRetries :
        /\ BeginCall
        /\ op' = "download"
        /\ pc' = "url"
        /\ directory' = dir
        /\ urls' = list
        /\ max_retries' = retries
        /\ i' = 1
        /\ attempt' = 0
        /\ hist' = [j \in 1..Len(list) |-> Untouched]
        /\ second' = FALSE
        /\ UNCHANGED << procVars, assets, skip, k >>

\* Lines 83-84 and 108-109 without the membership test: the next key.
NextInvalidAsset_Every(set, invalid, from) ==
    IF from <= Len(set) THEN from ELSE Len(set) + 1

\* Lines 83-84 and 108-109: the first key at or after `from` whose path is in
\* the invalid list; Len(set) + 1 when the loop runs out of keys.
NextInvalidAsset(set, invalid, from) ==
    LET hits == { n \in from..Len(set) : set[n].path \in { invalid[m] : m \in 1..Len(invalid) } }
    IN  IF hits = {} THEN Len(set) + 1
        ELSE CHOOSE n \in hits : \A m \in hits : n <= m

\* Lines 86 and 111 with a loop that stops at the first download that
\* returned False.
ReturnFromDownload_Abort(value) ==
    IF op = "download"
    THEN /\ pc' = "done"
         /\ ret' = value
         /\ UNCHANGED << k, invoked >>
    ELSE LET next == IF value = "False" THEN Len(assets) + 1
                     ELSE NextInvalidAsset(assets, invalid_paths, k + 1)
         IN  /\ pc' = IF next > Len(assets) THEN "validate" ELSE "assets"
             /\ ret' = ret
             /\ k' = next
             /\ invoked' = [invoked EXCEPT ![Len(invoked)].ret = value]

\* conditional_download returns `value` (lines 56 and 57): to the caller of a
\* direct call, or into the orchestration's loop, which drops the value
\* (lines 86 and 111) and goes on to the next invalid asset.
ReturnFromDownload(value) ==
    IF op = "download"
    THEN /\ pc' = "done"
         /\ ret' = value
         /\ UNCHANGED << k, invoked >>
    ELSE LET next == NextInvalidAsset(assets, invalid_paths, k + 1)
         IN  /\ pc' = IF next > Len(assets) THEN "validate" ELSE "assets"
             /\ ret' = ret
             /\ k' = next
             /\ invoked' = [invoked EXCEPT ![Len(invoked)].ret = value]

\* Lines 25-31 and 57: the next url of the list, or the end of the list.
DownloadUrl ==
    /\ pc = "url"
    /\ IF i > Len(urls)
       THEN /\ ReturnFromDownload("True")
            /\ UNCHANGED << files, procVars, argVars, i, attempt, invalid_paths,
                            dlVars, checks, validations, removed, log, ended, miscVars >>
       ELSE LET url == urls[i]
                download_file_path == DownloadFilePath(directory, url)
                initial_size == get_file_size(files, download_file_path)
            IN  \E resp \in SizeAnswers(url) :
                    LET download_size == get_download_size(url, resp)
                        needs == NeedsDownload(initial_size, download_size)
                        enter == needs /\ 0 < max_retries
                    IN  /\ GetDownloadSizeEffect(url, resp)
                        /\ hist' = [hist EXCEPT ![i] =
                                      [initial_size |-> initial_size,
                                       download_size |-> download_size,
                                       gets |-> 0,
                                       body_ok |-> FALSE,
                                       accepted |-> FALSE,
                                       status |-> IF enter THEN "fetching"
                                                  ELSE IF needs THEN "no_attempt"
                                                  ELSE "skipped"]]
                        /\ pc' = IF enter THEN "attempt" ELSE "url"
                        /\ i' = IF enter THEN i ELSE i + 1
                        /\ attempt' = 0
                        /\ UNCHANGED << files, argVars, k, invalid_paths, ret, get_issued,
                                        written, orchVars, miscVars >>

\* What one GET can come to: a RequestException before the file is opened
\* (transport error, raise_for_status), a RequestException while the body is
\* streamed into the opened file, or the whole body written.  A body cut short
\* leaves a file smaller than MaxSize that fails validate_hash.  Errors that
\* are no RequestException (the disk, a malformed header) are not modelled.
GetOutcomes ==
    { [kind |-> "error_open", size |-> 0, ok |-> FALSE],
      [kind |-> "error_status", size |-> 0, ok |-> FALSE] }
    \cup { [kind |-> "error_stream", size |-> s, ok |-> FALSE] : s \in 0..(MaxSize - 1) }
    \cup { [kind |-> "ok", size |-> s, ok |-> b] : s \in 0..MaxSize, b \in BOOLEAN }

\* Lines 34-36: requests.get returned and raise_for_status let the response
\* pass.
StatusAccepted(outcome) == outcome.kind \in { "error_stream", "ok" }

\* Line 38 moved ahead of raise_for_status: the file is opened as soon as
\* requests.get returned a response.
OpensFile_BeforeStatus(outcome) == outcome.kind \in { "error_status", "error_stream", "ok" }

\* Line 38: open(download_file_path, 'wb') is reached once the status passed.
OpensFile(outcome) == outcome.kind \in { "error_stream", "ok" }

\* Lines 32-56: one attempt of the retry loop.
DownloadAttempt ==
    /\ pc = "attempt"
    /\ \E outcome \in GetOutcomes :
        LET url == urls[i]
            download_file_path == DownloadFilePath(directory, url)
            failed == outcome.kind # "ok"
            give_up == failed /\ LastAttempt(attempt, max_retries)
            again == failed /\ ~give_up /\ MoreAttempts(attempt, max_retries)
        IN  /\ get_issued' = TRUE
            /\ files' = IF OpensFile(outcome)
                        THEN [files EXCEPT ![download_file_path] =
                                [exists |-> TRUE, size |-> outcome.size, ok |-> outcome.ok]]
                        ELSE files
            /\ written' = IF OpensFile(outcome)
                          THEN written \cup { download_file_path } ELSE written
            /\ hist' = [hist EXCEPT ![i].gets = @ + 1,
                                    ![i].body_ok = ~failed /\ outcome.ok,
                                    ![i].accepted = @ \/ StatusAccepted(outcome),
                                    ![i].status = IF ~failed THEN "fetched"
                                                  ELSE IF again THEN "fetching"
                                                  ELSE "failed"]
            /\ IF give_up
               THEN /\ ReturnFromDownload("False")
                    /\ UNCHANGED << i, attempt >>
               ELSE /\ pc' = IF again THEN "attempt" ELSE "url"
                    /\ i' = IF again THEN i ELSE i + 1
                    /\ attempt' = IF again THEN attempt + 1 ELSE 0
                    /\ UNCHANGED << k, ret, invoked >>
            /\ UNCHANGED << procVars, argVars, invalid_paths, resolved, queries,
                            checks, validations, removed, log, ended, miscVars >>


\* ------------------------------------------------------ the orchestration
\* Lines 81 and 106 taking the first list of the validator's pair.
InvalidPaths_FirstOfPair(kind, fs, paths) ==
    IF kind = "hashes" THEN validate_hash_paths_valid(fs, paths)
    ELSE validate_source_paths_valid(fs, paths)

\* Lines 81 and 106: the validator's invalid list, by the kind of the call.
InvalidPaths(kind, fs, paths) ==
    IF kind = "hashes" THEN validate_hash_paths_invalid(fs, paths)
    ELSE validate_source_paths_invalid(fs, paths)

\* Lines 88 and 113: the validator's valid list, by the kind of the call.
ValidPaths(kind, fs, paths) ==
    IF kind = "hashes" THEN validate_hash_paths_valid(fs, paths)
    ELSE validate_source_paths_valid(fs, paths)

BeginOrchestration(kind, dir, set, flag) ==
    /\ BeginCall
    /\ op' = kind
    /\ pc' = "check"
    /\ directory' = dir
    /\ assets' = set
    /\ skip' = flag
    /\ k' = 0
    /\ i' = 0
    /\ attempt' = 0
    /\ urls' = << >>
    /\ max_retries' = 0
    /\ hist' = << >>
    /\ second' = (kind = "sources" /\ healed = set)
    /\ UNCHANGED procVars

\* conditional_download_hashes(download_directory_path, hashes) is called.
CallConditionalDownloadHashes ==
    \E dir \in Dirs, set \in DownloadSets, flag \in BOOLEAN :
        BeginOrchestration("hashes", dir, set, flag)

\* conditional_download_sources(download_directory_path, sources) is called.
CallConditionalDownloadSources ==
    \E dir \in Dirs, set \in DownloadSets, flag \in BOOLEAN :
        BeginOrchestration("sources", dir, set, flag)

\* The host signals the process to stop; it can do so at any moment of a call.
RequestStop ==
    /\ op \in { "hashes", "sources" }
    /\ pc \notin { "done", "raised" }
    /\ ~stop_requested
    /\ stop_requested' = TRUE
    /\ UNCHANGED << files, procVars, argVars, ctlVars, dlVars, orchVars,
                    start, second, healed, partition >>

\* process_manager.check(): the checkpoint aborts the caller when the process
\* has been signalled to stop.
CheckRaises(stop) == stop

\* Lines 79 and 104 with the cancellation caught and dropped at the call.
Checkpoint_Swallowed ==
    /\ pc = "check"
    /\ checks' = checks + 1
    /\ pc' = "prevalidate"
    /\ ret' = ret
    /\ UNCHANGED << files, procVars, argVars, k, i, attempt, invalid_paths, dlVars,
                    invoked, validations, removed, log, ended, miscVars >>

\* Lines 79 and 104: process_manager.check() is consulted; when it raises, the
\* call is over and nothing after the line runs.
Checkpoint ==
    /\ pc = "check"
    /\ checks' = checks + 1
    /\ IF CheckRaises(stop_requested)
       THEN pc' = "raised" /\ ret' = "raised"
       ELSE pc' = "prevalidate" /\ ret' = ret
    /\ UNCHANGED << files, procVars, argVars, k, i, attempt, invalid_paths, dlVars,
                    invoked, validations, removed, log, ended, miscVars >>

\* Lines 80-82 and 105-107: unless skip_download is set, the validator finds
\* the paths to download.
PreValidate ==
    /\ pc = "prevalidate"
    /\ IF ~DownloadPhase(skip)
       THEN /\ pc' = "validate"
            /\ UNCHANGED << invalid_paths, validations, k >>
       ELSE LET invalid == InvalidPaths(op, files, PathsOf(assets))
            IN  /\ invalid_paths' = invalid
                /\ validations' = Append(validations, PathsOf(assets))
                /\ pc' = IF invalid # << >> THEN "assets" ELSE "validate"
                /\ k' = IF invalid # << >>
                        THEN NextInvalidAsset(assets, invalid, 1) ELSE k
    /\ UNCHANGED << files, procVars, argVars, i, attempt, ret, dlVars,
                    invoked, checks, removed, log, ended, miscVars >>

\* Lines 85-86 and 110-111 with a second process_manager.check() inside the
\* loop, ahead of the download.
DownloadAsset_Checked ==
    /\ pc = "assets"
    /\ checks' = checks + 1
    /\ IF stop_requested
       THEN /\ pc' = "raised"
            /\ ret' = "raised"
            /\ UNCHANGED << urls, max_retries, i, attempt, hist, invoked >>
       ELSE /\ pc' = "url"
            /\ ret' = ret
            /\ urls' = << assets[k].url >>
            /\ max_retries' = DefaultMaxRetries
            /\ i' = 1
            /\ attempt' = 0
            /\ hist' = << Untouched >>
            /\ invoked' = Append(invoked,
                                 [asset |-> k, urls |-> << assets[k].url >>, ret |-> "none"])
    /\ UNCHANGED << files, procVars, op, directory, assets, skip, k, invalid_paths,
                    resolved, queries, get_issued, written, validations, removed,
                    log, ended, miscVars >>

\* Lines 85-86 and 110-111: conditional_download is invoked with the url of
\* the invalid asset alone, and the default max_retries.
DownloadAsset ==
    /\ pc = "assets"
    /\ pc' = "url"
    /\ urls' = << assets[k].url >>
    /\ max_retries' = DefaultMaxRetries
    /\ i' = 1
    /\ attempt' = 0
    /\ hist' = << Untouched >>
    /\ invoked' = Append(invoked,
                         [asset |-> k, urls |-> << assets[k].url >>, ret |-> "none"])
    /\ UNCHANGED << files, procVars, op, directory, assets, skip, k, invalid_paths, ret,
                    resolved, queries, get_issued, written, checks, validations, removed,
                    log, ended, miscVars >>

SucceedLines(msg, paths) ==
    [n \in 1..Len(paths) |->
        [level |-> "debug", msg |-> msg, name |-> LogName(paths[n]), n |-> 0]]

FailedLines(msg, paths) ==
    [n \in 1..Len(paths) |->
        [level |-> "error", msg |-> msg, name |-> LogName(paths[n]), n |-> 0]]

\* Lines 117-122 with the loop's remove_file left out.
CleanupFiles_None(fs, paths) == fs

\* Lines 117-122: per invalid path the failed line, remove_file, and the
\* deleting line when a file was removed.  The disk after the loop:
RECURSIVE CleanupFiles(_, _)
CleanupFiles(fs, paths) ==
    IF paths = << >> THEN fs
    ELSE CleanupFiles(remove_file_files(fs, Head(paths)), Tail(paths))

\* ... and the lines the loop logs.
RECURSIVE CleanupLines(_, _)
CleanupLines(fs, paths) ==
    IF paths = << >> THEN << >>
    ELSE LET path == Head(paths)
         IN  << [level |-> "error", msg |-> "validating_source_failed",
                 name |-> LogName(path), n |-> 0] >>
             \o (IF remove_file_result(fs, path)
                 THEN << [level |-> "error", msg |-> "deleting_corrupt_source",
                          name |-> LogName(path), n |-> 0] >>
                 ELSE << >>)
             \o CleanupLines(remove_file_files(fs, path), Tail(paths))

\* Lines 98 and 126 without the `not`: the invalid list's truth value.
Outcome_NotDropped(invalid) == IF invalid = << >> THEN "False" ELSE "True"

\* Lines 96-98 and 124-126: the value returned for the invalid list.
Outcome(invalid) == IF invalid = << >> THEN "True" ELSE "False"

\* Lines 96-97 and 124-125 with end() called outside the `if`.
SignalsEnd_Always(invalid) == TRUE

\* Lines 96-97 and 124-125: process_manager.end() is called.
SignalsEnd(invalid) == invalid = << >>

\* Lines 88-98: conditional_download_hashes validates, logs and returns.
ValidateHashes ==
    /\ pc = "validate"
    /\ op = "hashes"
    /\ LET hash_paths == PathsOf(assets)
           valid_hash_paths == ValidPaths(op, files, hash_paths)
           invalid_hash_paths == InvalidPaths(op, files, hash_paths)
       IN  /\ validations' = Append(validations, hash_paths)
           /\ log' = log \o SucceedLines("validating_hash_succeed", valid_hash_paths)
                         \o FailedLines("validating_hash_failed", invalid_hash_paths)
           /\ ended' = SignalsEnd(invalid_hash_paths)
           /\ ret' = Outcome(invalid_hash_paths)
           /\ pc' = "done"
    /\ UNCHANGED << files, procVars, argVars, k, i, attempt, invalid_paths, dlVars,
                    invoked, checks, removed, miscVars >>

\* Lines 113-126: conditional_download_sources validates, logs, removes the
\* invalid files and returns.
ValidateSources ==
    /\ pc = "validate"
    /\ op = "sources"
    /\ LET source_paths == PathsOf(assets)
           valid_source_paths == ValidPaths(op, files, source_paths)
           invalid_source_paths == InvalidPaths(op, files, source_paths)
       IN  /\ validations' = Append(validations, source_paths)
           /\ log' = log \o SucceedLines("validating_source_succeed", valid_source_paths)
                         \o CleanupLines(files, invalid_source_paths)
           /\ files' = CleanupFiles(files, invalid_source_paths)
           /\ removed' = removed \o invalid_source_paths
           /\ ended' = SignalsEnd(invalid_source_paths)
           /\ ret' = Outcome(invalid_source_paths)
           /\ pc' = "done"
    /\ UNCHANGED << procVars, argVars, k, i, attempt, invalid_paths, dlVars,
                    invoked, checks, miscVars >>

\* A source file that was on disk with content failing validate_hash.
Corrupt(fs, path) == fs[path].exists /\ ~fs[path].ok

\* The call is over (returned or raised); the process goes on to its next call.
Return ==
    /\ pc \in { "done", "raised" }
    /\ healed' = IF /\ op = "sources"
                    /\ ret = "True"
                    /\ \E n \in 1..Len(assets) : Corrupt(start, assets[n].path)
                 THEN assets ELSE << >>
    /\ op' = "idle"
    /\ pc' = "idle"
    /\ directory' = ""
    /\ assets' = << >>
    /\ skip' = FALSE
    /\ urls' = << >>
    /\ max_retries' = 0
    /\ k' = 0
    /\ i' = 0
    /\ attempt' = 0
    /\ invalid_paths' = << >>
    /\ ret' = "none"
    /\ hist' = << >>
    /\ invoked' = << >>
    /\ resolved' = NoResolved
    /\ start' = files
    /\ stop_requested' = FALSE
    /\ checks' = 0
    /\ validations' = << >>
    /\ queries' = 0
    /\ get_issued' = FALSE
    /\ written' = {}
    /\ removed' = << >>
    /\ log' = << >>
    /\ ended' = FALSE
    /\ second' = FALSE
    /\ partition' = NoPartition
    /\ UNCHANGED << files, procVars >>

Next ==
    \/ CallGetDownloadSize
    \/ CallIsDownloadDone
    \/ CallConditionalDownload
    \/ CallValidateHashPaths
    \/ CallValidateSourcePaths
    \/ CallConditionalDownloadHashes
    \/ CallConditionalDownloadSources
    \/ RequestStop
    \/ Checkpoint
    \/ PreValidate
    \/ DownloadAsset
    \/ DownloadUrl
    \/ DownloadAttempt
    \/ ValidateHashes
    \/ ValidateSources
    \/ Return

Spec == Init /\ [][Next]_vars


\* ================================================================ claims
Orchestrating == op \in { "hashes", "sources" }

\* The validator of the running orchestration call accepts `path` on disk fs.
Passes(fs, path) ==
    IF op = "hashes" THEN is_file(fs, path) ELSE validate_hash(fs, path)

\* The one line the final validation logs for a valid path.
SucceedLine(path) ==
    [level |-> "debug",
     msg |-> IF op = "hashes" THEN "validating_hash_succeed" ELSE "validating_source_succeed",
     name |-> LogName(path), n |-> 0]

\* The url of position j of the running conditional_download is done with.
Finished(j) == hist[j].status \in { "skipped", "no_attempt", "fetched", "failed" }

\* ---------------------------------------------------------------- C1
\* An orchestration call with the skip flag unset, over a set of one asset
\* whose path is directory/<final url segment>, whose file was absent at the
\* start, whose remote size resolved to a positive value and whose fetch
\* completed with content that passes validation, has returned.
C1_Case ==
    /\ Orchestrating
    /\ pc = "done"
    /\ ~skip
    /\ Len(assets) = 1
    /\ assets[1].path = DownloadFilePath(directory, assets[1].url)
    /\ ~is_file(start, assets[1].path)
    /\ resolved.url = assets[1].url
    /\ resolved.size > 0
    /\ Len(hist) = 1
    /\ hist[1].status = "fetched"
    /\ hist[1].body_ok

\* C1: end-to-end acquisition of a missing asset: in that case the call has
\* downloaded to the asset's path, the validation after the download
\* classified the path as valid, completion was signalled and the call
\* returned true.
C1_EndToEnd ==
    C1_Case =>
        /\ get_issued
        /\ written = { assets[1].path }
        /\ is_file(files, assets[1].path)
        /\ Passes(files, assets[1].path)
        /\ log = << SucceedLine(assets[1].path) >>
        /\ removed = << >>
        /\ ended
        /\ ret = "True"

C1_Witness == C1_Case /\ op = "sources" /\ files[assets[1].path].size = 1

\* ---------------------------------------------------------------- C2
\* Line 31's comparison as the history of url j recorded it.
LocalSmaller(j) == hist[j].initial_size < hist[j].download_size

\* C2 as stated: for every url the list is done with, a GET was issued if and
\* only if the local size was strictly less than the resolved remote size.
C2_FetchIffSmaller ==
    \A j \in 1..Len(hist) : Finished(j) => (hist[j].gets > 0 <=> LocalSmaller(j))

\* C2 amended: the skip rule of the batch downloader.  A url whose local size
\* is equal to or greater than the resolved remote size is skipped without a
\* GET, and a direct call that only skipped has left the disk as it was; a url
\* whose local size is strictly less gets a GET whenever max_retries is at
\* least 1, and none when max_retries is 0.
C2_SkipRule ==
    /\ \A j \in 1..Len(hist) :
        Finished(j) =>
            /\ ~LocalSmaller(j) => hist[j].gets = 0 /\ hist[j].status = "skipped"
            /\ LocalSmaller(j) /\ max_retries >= 1 => hist[j].gets > 0
            /\ LocalSmaller(j) /\ max_retries = 0 => hist[j].gets = 0
    /\ (op = "download" /\ \A j \in 1..Len(hist) : hist[j].status \in { "skipped", "untouched" })
        => files = start /\ written = {} /\ ~get_issued

\* A direct call skipped a url whose file is larger than the remote size and
\* fetched another one.
C2_Witness ==
    /\ op = "download"
    /\ pc = "done"
    /\ Len(hist) = 2
    /\ hist[1].status = "skipped"
    /\ hist[1].initial_size > hist[1].download_size
    /\ hist[2].status = "fetched"

\* ---------------------------------------------------------------- C3
\* The remote size of url j resolved to the unknown sentinel 0 while a
\* non-empty local file was at the destination.
C3_Case(j) ==
    /\ Finished(j)
    /\ hist[j].download_size = 0
    /\ hist[j].initial_size > 0

\* C3 as stated: with an unknown remote size and a non-empty local file the
\* batch downloader still attempts a download of the url.
C3_StillAttempted ==
    \A j \in 1..Len(hist) : C3_Case(j) /\ max_retries >= 1 => hist[j].gets > 0

\* C3 amended: with an unknown remote size (0) and a non-empty local file the
\* batch downloader skips the url, since the local size is not less than 0:
\* no GET is issued for it, and a direct call for that url alone leaves the
\* disk as it was and returns true.
C3_UnknownSizeSkips ==
    \A j \in 1..Len(hist) :
        C3_Case(j) =>
            /\ hist[j].status = "skipped"
            /\ hist[j].gets = 0
            /\ (op = "download" /\ Len(urls) = 1 /\ pc = "done")
                => files = start /\ ~get_issued /\ ret = "True"

\* A direct call for one url whose size query failed just now, with a
\* non-empty file at the destination.
C3_Witness ==
    /\ op = "download"
    /\ pc = "done"
    /\ Len(urls) = 1
    /\ max_retries >= 1
    /\ C3_Case(1)
    /\ resolved.network


\* ---------------------------------------------------------------- C4
\* conditional_download_sources, skip flag unset, has returned from a call
\* over one asset (path = directory/<final url segment>) whose file was on
\* disk at the start with content failing validate_hash.
C4_Case ==
    /\ op = "sources"
    /\ pc = "done"
    /\ ~skip
    /\ Len(assets) = 1
    /\ assets[1].path = DownloadFilePath(directory, assets[1].url)
    /\ Corrupt(start, assets[1].path)
    /\ Len(hist) = 1

\* C4 as stated: whatever the size of the corrupt file, when the remote size
\* is known and no request of the call went wrong (no GET failed, none brought
\* invalid content), the one call leaves a valid file and returns true.
C4_HealsInOneCall ==
    ( /\ C4_Case
      /\ hist[1].download_size > 0
      /\ hist[1].status \in { "skipped", "fetched" }
      /\ hist[1].status = "fetched" => hist[1].body_ok /\ hist[1].gets = 1 )
    => ret = "True" /\ validate_hash(files, assets[1].path)

\* C4 amended: the corrupt file is replaced in the one call only when it is
\* smaller than the resolved remote size and a fetch completes with valid
\* content: it is then overwritten (remove_file is not called) and the call
\* returns true.  When it is as large as or larger than the resolved remote
\* size the call issues no GET, removes the file and returns false without
\* signalling completion.  A call that follows a repairing call on the same
\* set returns true and issues no network request.
C4_SelfHeal ==
    /\ ( /\ C4_Case
         /\ hist[1].initial_size < hist[1].download_size
         /\ hist[1].status = "fetched"
         /\ hist[1].body_ok )
       => /\ ret = "True"
          /\ ended
          /\ validate_hash(files, assets[1].path)
          /\ written = { assets[1].path }
          /\ removed = << >>
    /\ (C4_Case /\ hist[1].initial_size >= hist[1].download_size)
       => /\ hist[1].initial_size = start[assets[1].path].size
          /\ ~get_issued
          /\ removed = << assets[1].path >>
          /\ ~is_file(files, assets[1].path)
          /\ ret = "False"
          /\ ~ended
    /\ (op = "sources" /\ second /\ pc = "done")
       => /\ ret = "True"
          /\ ~get_issued
          /\ queries = 0
          /\ files = start
          /\ removed = << >>

\* The second call after a repairing call has returned.
C4_Witness == op = "sources" /\ second /\ pc = "done" /\ ~skip /\ Len(assets) = 1

\* ---------------------------------------------------------------- C5
\* C5: retry bound: no url ever gets more than max_retries GET attempts, and a
\* url that needed fetching (local size < remote size) and whose attempts all
\* failed got exactly max_retries of them.
C5_RetryBound ==
    \A j \in 1..Len(hist) :
        /\ hist[j].gets <= max_retries
        /\ (LocalSmaller(j) /\ hist[j].status \in { "failed", "no_attempt" })
            => hist[j].gets = max_retries

\* A direct call with max_retries = 2 whose two attempts failed.
C5_Witness ==
    /\ op = "download"
    /\ pc = "done"
    /\ max_retries = 2
    /\ Len(hist) = 1
    /\ hist[1].status = "failed"
    /\ hist[1].gets = 2

\* ---------------------------------------------------------------- C6
\* C6: fail-fast batch: once the last attempt of a url has failed, the call
\* has returned failure at once (to the host, or into the orchestration's
\* loop) and no later url of the list had its local size read, its remote
\* size queried or a fetch attempted.
C6_FailFast ==
    \A j \in 1..Len(hist) :
        hist[j].status = "failed" =>
            /\ \A m \in (j + 1)..Len(hist) : hist[m] = Untouched
            /\ resolved.url = urls[j]
            /\ op = "download" => pc = "done" /\ ret = "False"
            /\ Orchestrating => pc # "attempt" /\ pc # "url"
                                /\ invoked[Len(invoked)].ret = "False"

\* A direct call over two different urls gave up on the first; the file of
\* the second is missing.
C6_Witness ==
    /\ op = "download"
    /\ pc = "done"
    /\ Len(urls) = 2
    /\ urls[1] # urls[2]
    /\ hist[1].status = "failed"
    /\ ~is_file(files, DownloadFilePath(directory, urls[2]))

\* ---------------------------------------------------------------- C7
\* C7 as stated: a direct conditional_download call returns success if and
\* only if every url of the list was skipped or had an attempt that completed.
C7_BatchResult ==
    (op = "download" /\ pc = "done") =>
        (ret = "True" <=> \A j \in 1..Len(hist) : hist[j].status \in { "skipped", "fetched" })

\* ---------------------------------------------------------------- C8
\* C8: size memoization: at most one network size query is issued per url in
\* the process, the cache keeps the result of that first query, and every
\* get_download_size return is that first result, 0 included.
C8_Memoized ==
    /\ \A u \in URLs :
        /\ asked[u] <= 1
        /\ asked[u] = 1 => cache[u] = first[u] /\ first[u] # NotCached
        /\ asked[u] = 0 => cache[u] = NotCached
    /\ resolved.url # NoUrl =>
        /\ resolved.size = first[resolved.url]
        /\ asked[resolved.url] = 1

\* A later call was answered from the cache with the failure sentinel 0.
C8_Witness ==
    /\ op = "is_done"
    /\ resolved.url # NoUrl
    /\ ~resolved.network
    /\ resolved.size = 0

\* ---------------------------------------------------------------- C9
\* Every asset of the running orchestration call passed its validator when
\* the call started.
C9_AllValidAtStart ==
    /\ Orchestrating
    /\ \A n \in 1..Len(assets) : Passes(start, assets[n].path)

\* C9: idempotence of orchestration: such a call issues no size query and no
\* GET, writes and deletes no file, and returns true.
C9_Idempotent ==
    C9_AllValidAtStart =>
        /\ queries = 0
        /\ ~get_issued
        /\ invoked = << >>
        /\ written = {}
        /\ removed = << >>
        /\ files = start
        /\ pc = "done" => ret = "True" /\ ended

C9_Witness ==
    /\ C9_AllValidAtStart
    /\ op = "sources"
    /\ pc = "done"
    /\ ~skip
    /\ Len(assets) = 2

\* --------------------------------------------------------------- C10
\* The succeeded / failed lines of the log.
ValidationLines ==
    SelectSeq(log, LAMBDA l : l.msg \in { "validating_hash_succeed", "validating_hash_failed",
                                          "validating_source_succeed", "validating_source_failed" })

\* C10: skip flag honored: with skip_download set the call makes no download
\* attempt (no conditional_download, no size query, no GET, no file write),
\* and it still validates all paths once and logs one succeeded or failed
\* line per path, by what the validator finds.
C10_SkipHonored ==
    (Orchestrating /\ skip) =>
        /\ invoked = << >>
        /\ hist = << >>
        /\ queries = 0
        /\ ~get_issued
        /\ written = {}
        /\ pc = "done" =>
            /\ validations = << PathsOf(assets) >>
            /\ Len(ValidationLines) = Len(assets)
            /\ \A n \in 1..Len(assets) :
                \E m \in 1..Len(ValidationLines) :
                    /\ ValidationLines[m].name = LogName(assets[n].path)
                    /\ ValidationLines[m].level =
                        IF Passes(start, assets[n].path) THEN "debug" ELSE "error"

\* A skip call over two assets found invalid paths and returned false.
C10_Witness ==
    /\ Orchestrating
    /\ skip
    /\ pc = "done"
    /\ Len(assets) = 2
    /\ ret = "False"
    /\ ~Passes(start, assets[1].path)

\* ---------------------------------------------------------------- C11
\* The final validation logged a failed line: its invalid list was not empty.
FinalInvalid ==
    \E n \in 1..Len(log) : log[n].msg \in { "validating_hash_failed", "validating_source_failed" }

\* C11: an orchestration call that got past the checkpoint and returned, has
\* returned true exactly when the validation after the download phase
\* classified no path as invalid, and has signalled completion exactly when
\* it returned true; what the downloads returned does not enter the result.
\* Before the call returns, completion is not signalled.
C11_ResultIsFinalValidation ==
    /\ (Orchestrating /\ pc = "done") =>
        /\ ret \in { "True", "False" }
        /\ ret = "True" <=> ~FinalInvalid
        /\ ret = "True" <=> \A n \in 1..Len(assets) : Passes(files, assets[n].path)
        /\ ended <=> ret = "True"
    /\ pc # "done" => ~ended

\* A download returned False, yet the final validation found every path
\* valid: the call returned true and signalled completion.
C11_Witness ==
    /\ Orchestrating
    /\ pc = "done"
    /\ \E m \in 1..Len(invoked) : invoked[m].ret = "False"
    /\ ret = "True"
    /\ ended

\* ---------------------------------------------------------------- C12
\* Nothing of the call's body has run.
NothingRan ==
    /\ validations = << >>
    /\ queries = 0
    /\ ~get_issued
    /\ written = {}
    /\ removed = << >>
    /\ invoked = << >>
    /\ log = << >>
    /\ files = start
    /\ ~ended

\* C12: cancellation at the checkpoint.  A call that reaches the checkpoint
\* after the process was signalled to stop goes no further than the
\* checkpoint: the cancellation is propagated in place of a boolean, and no
\* validator ran, no network request was made, no file was written or
\* deleted and completion was not signalled.
C12_CancelledAtCheckpoint ==
    /\ [](pc = "raised" => (ret = "raised" /\ Orchestrating /\ NothingRan))
    /\ [][(pc = "check" /\ stop_requested /\ pc' # "check")
            => (pc' = "raised" /\ ret' = "raised")]_vars

C12_Witness == pc = "raised" /\ stop_requested /\ \E p \in Paths : ~is_file(files, p)

\* ---------------------------------------------------------------- C13
\* How often x occurs in the list s.
Count(x, s) == Cardinality({ n \in 1..Len(s) : s[n] = x })

\* The list s keeps the relative order its elements have in the list of.
KeepsOrder(s, of) == s = SelectSeq(of, LAMBDA x : x \in Range(s))

C13_Case == op \in { "validate_hash_paths", "validate_source_paths" } /\ pc = "done"

\* C13: partition totality and order.  The pair validate_hash_paths or
\* validate_source_paths returns splits its input: every input path occurs
\* in exactly one of the two lists, as often as in the input, neither list
\* holds a path that was not in the input, either list keeps the relative
\* order of the input, and a path is in the valid list exactly when it is a
\* file (hashes) or validate_hash accepts it (sources).  The disk is left
\* as it was.
C13_Partition ==
    C13_Case =>
        LET paths == partition.paths
            valid == partition.valid
            invalid == partition.invalid
        IN  /\ Range(valid) \cap Range(invalid) = {}
            /\ Range(valid) \cup Range(invalid) = Range(paths)
            /\ Len(valid) + Len(invalid) = Len(paths)
            /\ \A x \in Range(paths) : Count(x, valid) + Count(x, invalid) = Count(x, paths)
            /\ KeepsOrder(valid, paths)
            /\ KeepsOrder(invalid, paths)
            /\ \A x \in Range(paths) :
                x \in Range(valid) <=>
                    IF op = "validate_hash_paths" THEN is_file(files, x)
                    ELSE validate_hash(files, x)
            /\ files = start

\* A list of two different paths was split into a valid and an invalid one.
C13_Witness ==
    /\ C13_Case
    /\ Len(partition.paths) = 2
    /\ Len(partition.valid) = 1
    /\ Len(partition.invalid) = 1

\* ---------------------------------------------------------------- C14
\* The succeeded and failed lines of the final validation that name `path`.
ResultLines(path) ==
    { n \in 1..Len(log) :
        /\ log[n].name = LogName(path)
        /\ log[n].msg \in { "validating_hash_succeed", "validating_hash_failed",
                            "validating_source_succeed", "validating_source_failed" } }

C14_Case == Orchestrating /\ pc = "done" /\ ~skip

\* C14: best-effort orchestration.  When an orchestration call with the skip
\* flag unset has returned, every asset the first validation found invalid
\* got its download invocation, whether or not an earlier invocation
\* exhausted its retries and returned False; the validation after the
\* downloads was handed every path of the set, every path has its one
\* succeeded or failed line, and the call ended with a boolean.
C14_BestEffort ==
    C14_Case =>
        /\ [m \in 1..Len(invoked) |-> assets[invoked[m].asset].path]
              = SelectSeq(PathsOf(assets), LAMBDA p : p \in Range(invalid_paths))
        /\ \A m \in 1..Len(invoked) : invoked[m].ret \in { "True", "False" }
        /\ validations = << PathsOf(assets), PathsOf(assets) >>
        /\ \A n \in 1..Len(assets) : Cardinality(ResultLines(assets[n].path)) = 1
        /\ ret \in { "True", "False" }

\* Of two invalid assets the first one's download failed for good, and the
\* second was still downloaded.
C14_Witness ==
    /\ C14_Case
    /\ Len(assets) = 2
    /\ Len(invoked) = 2
    /\ invoked[1].ret = "False"
    /\ invoked[2].ret = "True"
    /\ get_issued

\* ---------------------------------------------------------------- C15
\* The final validation logged the succeeded line for `path`.
LoggedValid(path) == \E n \in 1..Len(log) : log[n] = SucceedLine(path)

\* The final validation logged the failed line for `path`.
LoggedInvalid(path) ==
    \E n \in 1..Len(log) :
        /\ log[n].name = LogName(path)
        /\ log[n].msg \in { "validating_hash_failed", "validating_source_failed" }

\* C15: deletion frame.  conditional_download_hashes never hands a path to
\* remove_file, and no file that was on disk has gone by its doing.
\* conditional_download_sources hands to remove_file exactly the paths its
\* final validation classified invalid, in that order and once each, and
\* nothing before that validation; a path the final validation classified
\* valid is not removed and its file is on disk, passing validation, when
\* the call returns.
C15_DeletionFrame ==
    /\ op = "hashes" =>
        /\ removed = << >>
        /\ \A p \in Paths : is_file(start, p) => is_file(files, p)
    /\ (op = "sources" /\ pc # "done") =>
        /\ removed = << >>
        /\ \A p \in Paths : is_file(start, p) => is_file(files, p)
    /\ (op = "sources" /\ pc = "done") =>
        /\ removed = SelectSeq(PathsOf(assets), LAMBDA p : LoggedInvalid(p))
        /\ \A p \in Range(PathsOf(assets)) :
            /\ LoggedValid(p) <=> ~LoggedInvalid(p)
            /\ LoggedValid(p) => p \notin Range(removed) /\ validate_hash(files, p)
            /\ LoggedInvalid(p) => ~is_file(files, p)
        /\ \A p \in Paths :
            (is_file(start, p) /\ ~is_file(files, p)) => p \in Range(removed)

\* A sources call over two files returned having removed the corrupt one and
\* kept the valid one.
C15_Witness ==
    /\ op = "sources"
    /\ pc = "done"
    /\ Len(assets) = 2
    /\ Len(removed) = 1
    /\ Corrupt(start, removed[1])
    /\ \E p \in Range(PathsOf(assets)) : LoggedValid(p) /\ validate_hash(start, p)

\* ---------------------------------------------------------------- C16
\* The assets whose path the validation before the downloads found invalid,
\* as positions of the set, in order.
InvalidKeys ==
    SelectSeq([n \in 1..Len(assets) |-> n],
              LAMBDA n : ~Passes(start, assets[n].path))

\* C16: download ordering.  In an orchestration call with the skip flag
\* unset, the conditional_download invocations made so far are, in order,
\* those of the first assets whose path the pre-download validation
\* classified invalid, one each, each handed a list of that asset's url
\* alone, and only the last one can still be running; once the download
\* phase is over every such asset had its invocation.  An asset classified
\* valid gets none.
C16_DownloadOrdering ==
    (Orchestrating /\ ~skip) =>
        /\ Len(invoked) <= Len(InvalidKeys)
        /\ \A m \in 1..Len(invoked) :
            /\ invoked[m].asset = InvalidKeys[m]
            /\ invoked[m].urls = << assets[invoked[m].asset].url >>
            /\ m < Len(invoked) => invoked[m].ret # "none"
        /\ pc \in { "validate", "done" } =>
            /\ Len(invoked) = Len(InvalidKeys)
            /\ \A m \in 1..Len(invoked) : invoked[m].ret # "none"
        /\ pc \in { "assets", "url", "attempt" } =>
            invalid_paths = [m \in 1..Len(InvalidKeys) |-> assets[InvalidKeys[m]].path]

\* Of two assets only the second was invalid, and only it was downloaded.
C16_Witness ==
    /\ Orchestrating
    /\ ~skip
    /\ pc = "done"
    /\ Len(assets) = 2
    /\ Passes(start, assets[1].path)
    /\ Len(invoked) = 1
    /\ invoked[1].asset = 2
    /\ get_issued

\* ---------------------------------------------------------------- C17
\* C17: single checkpoint.  An orchestration call consults the checkpoint
\* once: while the call waits at the checkpoint it was not consulted and
\* nothing of the call has run (no validator call, no size query, no fetch,
\* no deletion); from then on it was consulted exactly once, a call that was
\* cancelled was cancelled there and nowhere later, and a stop request that
\* arrives after the checkpoint changes nothing: the call that returns has
\* run its final validation over every path, returned a boolean, and
\* signalled completion exactly when it returned true.
C17_SingleCheckpoint ==
    Orchestrating =>
        /\ pc = "check" => (checks = 0 /\ NothingRan /\ ret = "none")
        /\ pc # "check" => checks = 1
        /\ pc = "raised" => NothingRan
        /\ (pc = "done" /\ stop_requested) =>
            /\ validations # << >>
            /\ validations[Len(validations)] = PathsOf(assets)
            /\ \A n \in 1..Len(assets) : Cardinality(ResultLines(assets[n].path)) = 1
            /\ ret \in { "True", "False" }
            /\ ended <=> ret = "True"
            /\ Len(invoked) = IF skip THEN 0 ELSE Len(InvalidKeys)

\* The stop request came after the checkpoint; the call went on to download,
\* validate, and signal completion.
C17_Witness ==
    /\ Orchestrating
    /\ pc = "done"
    /\ stop_requested
    /\ checks = 1
    /\ get_issued
    /\ Len(invoked) = 2
    /\ ended

\* ---------------------------------------------------------------- C18
\* The first size query of `url` in the process resolved it to 0.
ResolvedUnknown(url) == first[url] = 0

\* C18: sticky unknown size.  Once get_download_size has resolved a url to 0,
\* every conditional_download of the process that comes to the url records
\* the remote size 0 for it and skips it without a GET, whatever the local
\* file; a direct call over such urls alone returns true with the disk as it
\* was, and an orchestration's invocation for such a url returns true.
\* Consequently an orchestration call that starts with an asset's file
\* absent and has the asset's url resolved to 0 returns with the file still
\* absent, the path logged as failed, the result false and no completion
\* signal.
C18_StickyUnknown ==
    /\ \A j \in 1..Len(hist) :
        (hist[j].status # "untouched" /\ ResolvedUnknown(urls[j])) =>
            /\ hist[j].download_size = 0
            /\ hist[j].status = "skipped"
            /\ hist[j].gets = 0
    /\ \A u \in URLs : ResolvedUnknown(u) => cache[u] = 0
    /\ (op = "download" /\ pc = "done" /\ \A j \in 1..Len(urls) : ResolvedUnknown(urls[j])) =>
        /\ ret = "True"
        /\ ~get_issued
        /\ files = start
    /\ Orchestrating =>
        \A m \in 1..Len(invoked) :
            (invoked[m].ret # "none" /\ ResolvedUnknown(invoked[m].urls[1])) =>
                invoked[m].ret = "True"
    /\ (Orchestrating /\ pc = "done") =>
        \A n \in 1..Len(assets) :
            (ResolvedUnknown(assets[n].url) /\ ~is_file(start, assets[n].path)) =>
                /\ ~is_file(files, assets[n].path)
                /\ LoggedInvalid(assets[n].path)
                /\ ret = "False"
                /\ ~ended

\* A later orchestration call: the url was resolved to 0 by an earlier call,
\* the asset's file was absent, the invocation was answered from the cache
\* and skipped, and the call returned false.
C18_Witness ==
    /\ Orchestrating
    /\ pc = "done"
    /\ ~skip
    /\ Len(assets) = 1
    /\ assets[1].path = DownloadFilePath(directory, assets[1].url)
    /\ ResolvedUnknown(assets[1].url)
    /\ ~is_file(start, assets[1].path)
    /\ queries = 0
    /\ Len(invoked) = 1
    /\ invoked[1].ret = "True"
    /\ ret = "False"

\* ---------------------------------------------------------------- C19
\* The paths whose url had a GET response accepted in the running
\* conditional_download.
AcceptedPaths ==
    { DownloadFilePath(directory, urls[j]) :
        j \in { n \in 1..Len(hist) : hist[n].accepted } }

\* C19: file unchanged on early failure.  The destination file is opened
\* for writing only by an attempt whose response got past raise_for_status:
\* in a conditional_download call the paths opened are those of the urls
\* with such an attempt, and every other file is as it was when the call
\* started, so a url whose attempts all failed before that point (transport
\* error, non-success status) leaves its file neither created nor truncated
\* nor modified.  During the download phase of an orchestration the same
\* holds of each invocation.
C19_EarlyFailureKeepsFile ==
    /\ op = "download" =>
        /\ written = AcceptedPaths
        /\ \A p \in Paths : p \notin AcceptedPaths => files[p] = start[p]
    /\ (Orchestrating /\ pc \in { "url", "attempt" }) =>
        /\ AcceptedPaths \subseteq written
        /\ \A p \in Paths : p \notin written => files[p] = start[p]

\* Every attempt of a url failed before the status was accepted, the retries
\* are exhausted and the destination is as absent as before.
C19_Witness ==
    /\ op = "download"
    /\ pc = "done"
    /\ Len(urls) = 1
    /\ max_retries = 2
    /\ hist[1].status = "failed"
    /\ hist[1].gets = 2
    /\ ~hist[1].accepted
    /\ ret = "False"
    /\ ~is_file(files, DownloadFilePath(directory, urls[1]))
    /\ files = start

\* ---------------------------------------------------------------- C20
\* The line the cleanup logs when remove_file removed the file at `path`.
DeletingLine(path) ==
    [level |-> "error", msg |-> "deleting_corrupt_source", name |-> LogName(path), n |-> 0]

C20_Case == op = "sources" /\ skip /\ pc = "done"

\* C20: cleanup under the skip flag.  The flag switches off the download
\* phase only: a conditional_download_sources call with the flag set that
\* has returned made no download invocation and no network request, yet
\* handed to remove_file every path that failed content validation on the
\* disk it started with, none of these is a file any more, a source file
\* that was on disk with bad content is deleted and logged as deleted, every
\* other file is as it was, and when any path failed the call returned
\* false without signalling completion.
C20_CleanupUnderSkip ==
    C20_Case =>
        /\ invoked = << >>
        /\ queries = 0
        /\ ~get_issued
        /\ written = {}
        /\ removed = SelectSeq(PathsOf(assets), LAMBDA p : ~validate_hash(start, p))
        /\ \A p \in Range(removed) : ~is_file(files, p)
        /\ \A p \in Range(PathsOf(assets)) :
            Corrupt(start, p) =>
                /\ p \in Range(removed)
                /\ ~is_file(files, p)
                /\ \E n \in 1..Len(log) : log[n] = DeletingLine(p)
        /\ \A p \in Paths : p \notin Range(removed) => files[p] = start[p]
        /\ removed # << >> => (ret = "False" /\ ~ended)
        /\ removed = << >> => (ret = "True" /\ ended)

\* With the flag set, a corrupt source file was deleted and the call
\* returned false.
C20_Witness ==
    /\ C20_Case
    /\ \E p \in Range(PathsOf(assets)) : Corrupt(start, p) /\ ~is_file(files, p)
    /\ ret = "False"
    /\ ~ended

====
